---- MODULE Spec2Model ----
(***************************************************************************)
(* Model of batch_convert_mjlog.py: the batch conversion of mjlog XML      *)
(* files to MJAI through a thread pool, one process_single_file job per    *)
(* input file (pre-check, gzip, external converter, optional validator).   *)
(*                                                                         *)
(* Texts (file names, messages, captured stderr) are TLA+ strings; Python  *)
(* None is the empty tuple and a present value v is the one-tuple <<v>>.   *)
(* File systems are functions from the names of the files that exist to    *)
(* their contents.  Existence tests and deletions of files are taken to    *)
(* succeed; reads, writes and process launches can fail as the scenario    *)
(* of the input file says.                                                 *)
(***************************************************************************)
EXTENDS Integers, Sequences, FiniteSets, TLC

\* ------------------------------------------------------------------ bounds
\* Most input files in the input directory.
MaxFiles == 2
\* Largest worker-pool size tried.
MaxWorkers == 2
\* Largest --limit tried.
MaxLimit == 1
\* Most results in a collection handed to the reporter on its own.
MaxResults == 11

\* ------------------------------------------------------ program constants
\* result.stderr[:200]
StderrLimit == 200
\* first_error[:100]
FirstErrorLimit == 100

\* ------------------------------------------------------------------- texts
None == << >>
Some(v) == << v >>

Min(a, b) == IF a < b THEN a ELSE b
Max(a, b) == IF a > b THEN a ELSE b

\* s[:n] for n >= 0
Take(s, n) == SubSeq(s, 1, Min(n, Len(s)))

\* s[:n] for any integer n (a negative n counts from the end)
PySliceTo(s, n) == IF n >= 0 THEN Take(s, n) ELSE Take(s, Max(0, Len(s) + n))

\* m in s
Contains(s, m) ==
    \E i \in 1..(Len(s) - Len(m) + 1) : SubSeq(s, i, i + Len(m) - 1) = m

IsPrefix(p, s) == Len(p) <= Len(s) /\ SubSeq(s, 1, Len(p)) = p

EndsWith(s, suf) ==
    Len(suf) <= Len(s) /\ SubSeq(s, Len(s) - Len(suf) + 1, Len(s)) = suf

RECURSIVE Rep(_, _)
Rep(c, n) ==
    IF n <= 0 THEN ""
    ELSE LET half == Rep(c, n \div 2)
         IN  half \o half \o (IF n % 2 = 1 THEN c ELSE "")

\* s.split('\n')
RECURSIVE Split(_)
Split(s) ==
    LET nl == {i \in 1..Len(s) : SubSeq(s, i, i) = "\n"}
    IN  IF nl = {} THEN << s >>
        ELSE LET k == CHOOSE i \in nl : \A j \in nl : i <= j
             IN  << SubSeq(s, 1, k - 1) >> \o Split(SubSeq(s, k + 1, Len(s)))

\* Character order of the characters that occur in file names.
Alphabet == ".abcdefghijklmnopqrstuvwxyz"
Ord(c) == CHOOSE i \in 1..Len(Alphabet) : SubSeq(Alphabet, i, i) = c

\* s < t, as Python compares strings (and paths of one directory)
LexLess(s, t) ==
    \E k \in 0..Min(Len(s), Len(t)) :
        /\ SubSeq(s, 1, k) = SubSeq(t, 1, k)
        /\ \/ k = Len(s) /\ k < Len(t)
           \/ /\ k < Len(s) /\ k < Len(t)
              /\ Ord(SubSeq(s, k + 1, k + 1)) < Ord(SubSeq(t, k + 1, k + 1))

\* sorted(S) for a finite set of names
sorted(S) ==
    CHOOSE q \in [1..Cardinality(S) -> S] :
        \A i, j \in 1..Cardinality(S) : i < j => LexLess(q[i], q[j])

Range(q) == {q[i] : i \in 1..Len(q)}

\* Path.stem: the name without its last suffix
Stem(name) ==
    LET dots == {i \in 2..Len(name) : SubSeq(name, i, i) = "."}
    IN  IF dots = {} THEN name
        ELSE SubSeq(name, 1, (CHOOSE i \in dots : \A j \in dots : j <= i) - 1)

\* input_dir.glob("*.xml")
glob_xml(entries) == {n \in entries : EndsWith(n, ".xml")}

\* ---------------------------------------------------------------- messages
UnsupportedMarker == "Skipping unsupported file"
FailsMarker == "fails"
MsgUnsupported == "Unsupported format"
MsgEmpty == "Conversion produced empty or no file"
MsgSuccess == "Success"
MsgBye == "Contains BYE event (player disconnection)"
MsgValidatorMissing == "Validator not found, skipping validation"
MsgValidationPassed == "Validation passed"
MsgValidationTimeout == "Validation timeout"
MsgUnknownError == "Unknown error"
MsgMaxWorkers == "max_workers must be greater than 0"
MsgDivision == "division by zero"

\* Messages of the exceptions the environment raises.
ErrPermission == "[Errno 13] Permission denied"
ErrNoSpace == "[Errno 28] No space left on device"
ErrLaunch == "[Errno 2] No such file or directory: 'mjai'"
ErrValidatorLaunch == "[Errno 8] Exec format error"

\* ------------------------------------------------------------ file systems
NoFiles == [n \in {} |-> None]
Put(fs, name, content) ==
    [n \in DOMAIN fs \cup {name} |-> IF n = name THEN content ELSE fs[n]]
Unlink(fs, name) == [n \in DOMAIN fs \ {name} |-> fs[n]]
Exists(fs, name) == name \in DOMAIN fs

\* A scratch artifact: the gzip of input file `of`, whole or cut short.
Gz(of, complete) == [of |-> of, complete |-> complete]
\* A destination file: written for input file `of`, st_size `size`.
Mjson(of, size) == [of |-> of, size |-> size]

\* ---------------------------------------------- behaviour of the externals
\* What the converter process does with one readable input: whether it can
\* be launched, its exit code, its captured stderr, what it leaves at the
\* destination ("none", "empty" or "data").
Conv(launch, rc, err, write) ==
    [launch |-> launch, returncode |-> rc, stderr |-> err, write |-> write]
ConvOk == Conv(TRUE, 0, "", "data")
ConvEmpty == Conv(TRUE, 0, "", "empty")
ConvNothing == Conv(TRUE, 0, "warning", "none")
ConvUnsupported == Conv(TRUE, 1, "W: " \o UnsupportedMarker \o " a.mjlog", "none")
ConvUnsupportedLate ==
    Conv(TRUE, 1, Rep("w", StderrLimit) \o UnsupportedMarker, "data")
ConvShort == Conv(TRUE, 1, "parse error", "none")
ConvPartial == Conv(TRUE, 1, "unexpected end of log", "data")
ConvSilent == Conv(TRUE, 2, "", "empty")
ConvExact == Conv(TRUE, 1, Rep("e", StderrLimit), "data")
ConvLong == Conv(TRUE, 1, Rep("e", StderrLimit) \o "!", "data")
ConvNoLaunch == Conv(FALSE, 0, "", "none")
\* The converter given a missing or cut-short scratch artifact.
ConvBadInput == Conv(TRUE, 1, "not in gzip format", "none")

\* What the validator process does with one converted file: kind "exit"
\* (it ran to an exit code), "timeout" or "oserror" (launch exception).
Val(kind, rc, err) == [kind |-> kind, returncode |-> rc, stderr |-> err]
ValPass == Val("exit", 0, "")
ValFail == Val("exit", 1, "reading log\nkyoku 3 fails: bad tile\nkyoku 4 fails")
ValFailLong == Val("exit", 1, "x " \o FailsMarker \o Rep("z", FirstErrorLimit))
ValFailOther == Val("exit", 1, "panicked")
ValFailQuiet == Val("exit", 3, "")
ValTimeout == Val("timeout", 0, "")
ValOsError == Val("oserror", 0, "")

\* The scenario of one input file: its content ("plain", "bye": contains
\* BYE, "unreadable": it cannot be opened), the compression ("ok",
\* "write_fail": the copy fails after the scratch artifact was created), and
\* what the two external tools do with it.
Scenario(xml, gz, conv, val) == [xml |-> xml, gz |-> gz, conv |-> conv, val |-> val]

\* Scenarios of the files of a batch of several files.
BatchScenarios ==
    { Scenario("bye", "ok", ConvOk, ValPass),
      Scenario("plain", "write_fail", ConvOk, ValPass),
      Scenario("plain", "ok", ConvPartial, ValPass),
      Scenario("plain", "ok", ConvOk, ValPass),
      Scenario("plain", "ok", ConvOk, ValFail) }

\* Scenarios of the file of a batch of one file: every behaviour above.
JobScenarios ==
    BatchScenarios
    \cup { Scenario("unreadable", "ok", ConvOk, ValPass) }
    \cup { Scenario("plain", "ok", c, ValPass) :
             c \in { ConvEmpty, ConvNothing, ConvUnsupported, ConvUnsupportedLate,
                     ConvShort, ConvSilent, ConvExact, ConvLong, ConvNoLaunch } }
    \cup { Scenario("plain", "ok", ConvOk, v) :
             v \in { ValFailLong, ValFailOther, ValFailQuiet, ValTimeout, ValOsError } }
    \cup { Scenario("plain", "ok", ConvNothing, ValFail) }

\* Names of the input directory's entries, in no particular order.
\* Their stems differ pairwise; HiddenNames below are two names with one stem.
NamePool == << "b.xml", "a.xml", "a.b.xml", "c.xml", "d.xml" >>
OtherEntry == "notes.txt"

\* ---------------------------------------------------------- the functions
\* Faulty variant of mjlog_path_of: one scratch name for every input file.
mjlog_path_shared(xml_name) == "temp.mjlog"

\* gzip_xml_to_mjlog: the path of the scratch artifact of an input file.
mjlog_path_of(xml_name) == Stem(xml_name) \o ".mjlog"

\* gzip_xml_to_mjlog(xml_path, temp_dir) on scratch directory `tmp`, the
\* input file having scenario sc: the exception raised (or None), the path
\* returned and the scratch directory afterwards.  open(xml_path) comes
\* first and creates nothing when it fails; gzip.open creates the artifact
\* and a failing copy leaves it behind, cut short.
gzip_xml_to_mjlog(xml_name, sc, tmp) ==
    LET mjlog_path == mjlog_path_of(xml_name)
    IN  IF sc.xml = "unreadable"
        THEN [exc |-> Some(ErrPermission), ret |-> None, tmp |-> tmp]
        ELSE IF sc.gz = "write_fail"
        THEN [exc |-> Some(ErrNoSpace), ret |-> None,
              tmp |-> Put(tmp, mjlog_path, Gz(xml_name, FALSE))]
        ELSE [exc |-> None, ret |-> Some(mjlog_path),
              tmp |-> Put(tmp, mjlog_path, Gz(xml_name, TRUE))]

\* convert_mjlog_to_mjai: the destination path for a scratch artifact.
output_path_of(mjlog_path) == Stem(mjlog_path) \o ".mjson"

\* subprocess.run([mjai, 'convert', mjlog_path, output_path]): what the
\* converter does, decided by the content it reads from the scratch
\* directory, and the output directory after it ran.
run_converter(scen, tmp, out, mjlog_path) ==
    LET output_path == output_path_of(mjlog_path)
        b == IF Exists(tmp, mjlog_path) /\ tmp[mjlog_path].complete
             THEN scen[tmp[mjlog_path].of].conv
             ELSE ConvBadInput
        src == IF Exists(tmp, mjlog_path) THEN tmp[mjlog_path].of ELSE ""
    IN  IF ~b.launch
        THEN [exc |-> Some(ErrLaunch), returncode |-> 0, stderr |-> "", out |-> out]
        ELSE [exc |-> None, returncode |-> b.returncode, stderr |-> b.stderr,
              out |-> CASE b.write = "none" -> out
                        [] b.write = "empty" -> Put(out, output_path, Mjson(src, 0))
                        [] OTHER -> Put(out, output_path, Mjson(src, 1))]

\* Faulty variant of failure_message: the diagnostic is not truncated.
failure_message_untruncated(stderr) ==
    IF Contains(stderr, UnsupportedMarker) THEN MsgUnsupported ELSE stderr

\* The failure message of a nonzero exit (lines 49-52).
failure_message(stderr) ==
    IF Contains(stderr, UnsupportedMarker)
    THEN MsgUnsupported
    ELSE PySliceTo(stderr, StderrLimit)

\* Faulty variant of convert_classify: a zero exit with a destination file
\* is a success whatever the file's size.
convert_classify_no_size_check(proc, output_path) ==
    LET out == proc.out
        removed == IF Exists(out, output_path) THEN Unlink(out, output_path) ELSE out
    IN  IF proc.exc # None
        THEN [success |-> FALSE, message |-> proc.exc[1], out |-> removed]
        ELSE IF proc.returncode # 0
        THEN [success |-> FALSE, message |-> failure_message(proc.stderr),
              out |-> removed]
        ELSE IF ~Exists(out, output_path)
        THEN [success |-> FALSE, message |-> MsgEmpty, out |-> out]
        ELSE [success |-> TRUE, message |-> MsgSuccess, out |-> out]

\* Faulty variant of convert_classify: a nonzero exit leaves the partly
\* written destination file in place.
convert_classify_keep_partial(proc, output_path) ==
    LET out == proc.out
        removed == IF Exists(out, output_path) THEN Unlink(out, output_path) ELSE out
    IN  IF proc.exc # None
        THEN [success |-> FALSE, message |-> proc.exc[1], out |-> removed]
        ELSE IF proc.returncode # 0
        THEN [success |-> FALSE, message |-> failure_message(proc.stderr),
              out |-> out]
        ELSE IF ~Exists(out, output_path) \/ out[output_path].size = 0
        THEN [success |-> FALSE, message |-> MsgEmpty, out |-> removed]
        ELSE [success |-> TRUE, message |-> MsgSuccess, out |-> out]

\* convert_mjlog_to_mjai after the process ran (proc: what run_converter
\* gave): (success, message) and the output directory it leaves.
convert_classify(proc, output_path) ==
    LET out == proc.out
        removed == IF Exists(out, output_path) THEN Unlink(out, output_path) ELSE out
    IN  IF proc.exc # None
        THEN [success |-> FALSE, message |-> proc.exc[1], out |-> removed]
        ELSE IF proc.returncode # 0
        THEN [success |-> FALSE, message |-> failure_message(proc.stderr),
              out |-> removed]
        ELSE IF ~Exists(out, output_path) \/ out[output_path].size = 0
        THEN [success |-> FALSE, message |-> MsgEmpty, out |-> removed]
        ELSE [success |-> TRUE, message |-> MsgSuccess, out |-> out]

\* validator_path.exists() guards the launch (line 72).
validator_launched(validator_present) == validator_present

\* next((e for e in errors if 'fails' in e), "Unknown error") with
\* errors = result.stderr.split('\n') if result.stderr else []
first_error(stderr) ==
    LET errors == IF stderr = "" THEN << >> ELSE Split(stderr)
        hits == {i \in 1..Len(errors) : Contains(errors[i], FailsMarker)}
    IN  IF hits = {} THEN MsgUnknownError
        ELSE errors[CHOOSE i \in hits : \A j \in hits : i <= j]

\* Faulty variant of validate_mjai: a missing validator fails the file.
validate_mjai_missing_fails(validator_present, v) ==
    IF ~validator_launched(validator_present)
    THEN [valid |-> FALSE, message |-> MsgValidatorMissing]
    ELSE CASE v.kind = "timeout" -> [valid |-> FALSE, message |-> MsgValidationTimeout]
           [] v.kind = "oserror" -> [valid |-> FALSE, message |-> ErrValidatorLaunch]
           [] OTHER ->
                IF v.returncode = 0
                THEN [valid |-> TRUE, message |-> MsgValidationPassed]
                ELSE [valid |-> FALSE,
                      message |-> PySliceTo(first_error(v.stderr), FirstErrorLimit)]

\* validate_mjai(mjson_path): (valid, message), the validator behaving as
\* v when it is launched.
validate_mjai(validator_present, v) ==
    IF ~validator_launched(validator_present)
    THEN [valid |-> TRUE, message |-> MsgValidatorMissing]
    ELSE CASE v.kind = "timeout" -> [valid |-> FALSE, message |-> MsgValidationTimeout]
           [] v.kind = "oserror" -> [valid |-> FALSE, message |-> ErrValidatorLaunch]
           [] OTHER ->
                IF v.returncode = 0
                THEN [valid |-> TRUE, message |-> MsgValidationPassed]
                ELSE [valid |-> FALSE,
                      message |-> PySliceTo(first_error(v.stderr), FirstErrorLimit)]

\* Faulty variant of check_bye_event: the pre-check never fires.
check_bye_event_never(sc) == FALSE

\* check_bye_event(xml_path): a file that cannot be read has no BYE.
check_bye_event(sc) == sc.xml = "bye"

\* The result dict process_single_file starts with (lines 110-115).
new_result(xml_name) ==
    [file |-> xml_name, status |-> "pending", error |-> None, validation |-> None]

\* Lines 119-121.
skip_result(result) ==
    [result EXCEPT !.status = "skipped", !.error = Some(MsgBye)]

\* Faulty variant of conversion_result: the invoker's message is stored for
\* a success too.
conversion_result_with_message(result, success, message) ==
    [result EXCEPT !.status = IF success THEN "converted" ELSE "failed",
                   !.error = Some(message)]

\* Lines 130-139 up to the validation: the result after the conversion.
conversion_result(result, success, message) ==
    IF success
    THEN [result EXCEPT !.status = "converted"]
    ELSE [result EXCEPT !.status = "failed", !.error = Some(message)]

\* Faulty variant of validation_result: a failed validation fails the job.
validation_result_gating(result, valid, validation_msg) ==
    IF valid
    THEN [result EXCEPT !.validation = Some("passed")]
    ELSE [result EXCEPT !.status = "failed",
                        !.validation = Some("failed: " \o validation_msg)]

\* Line 136.
validation_result(result, valid, validation_msg) ==
    [result EXCEPT !.validation =
        Some(IF valid THEN "passed" ELSE "failed: " \o validation_msg)]

\* Faulty variant of on_exception: the message is stored, the status is not.
on_exception_keeps_status(result, e) ==
    [raised |-> FALSE, result |-> [result EXCEPT !.error = Some(e)]]

\* Faulty variant of on_exception: no except clause, the exception leaves
\* process_single_file.
on_exception_propagates(result, e) == [raised |-> TRUE, result |-> result]

\* Lines 144-148: what the job hands to its future when exception e reaches
\* the except clause.
on_exception(result, e) ==
    [raised |-> FALSE, result |-> [result EXCEPT !.status = "error", !.error = Some(e)]]

\* Line 142, after the try body ran to its end.
cleanup(tmp, mjlog_path) ==
    IF Exists(tmp, mjlog_path) THEN Unlink(tmp, mjlog_path) ELSE tmp

\* Lines 161-162.
apply_limit(xml_files, limit) ==
    IF limit # None /\ limit[1] # 0 THEN PySliceTo(xml_files, limit[1]) ELSE xml_files

\* Faulty variant of worker_free: a thread per work item.
worker_free_unbounded(running, max_workers) == TRUE

\* ThreadPoolExecutor: a queued work item starts only on a free worker.
worker_free(running, max_workers) == running < max_workers

\* Faulty variant of collect: the newest result goes first.
collect_prepends(results, result) == << result >> \o results

\* Faulty variant of collect: the collection is replaced, not extended.
collect_overwrites(results, result) == << result >>

\* Line 193.
collect(results, result) == Append(results, result)

\* ------------------------------------------------------------------- state
VARIABLES
    entries,            \* names of the input directory's entries
    scen,               \* scenario of each input file (the environment)
    stale,              \* the output directory holds an earlier run's files
    validator_present,  \* the validator executable exists at its path
    validate,           \* batch_convert's arguments
    max_workers,
    limit,
    pc,                 \* position of batch_convert
    xml_files,          \* the sorted, limited list of input files
    out_exists,         \* the output directory exists
    out,                \* files of the output directory
    temp_exists,        \* the scratch directory exists
    tmp,                \* files of the scratch directory
    futures,            \* future_to_file: the job of each submitted file
    work_queue,         \* the executor's queue of work items not yet started
    results,            \* the result collection
    summary,            \* what the summary printed (None before it)
    results_file,       \* what conversion_results.json holds (None before it)
    crash,              \* the exception that ended batch_convert (or None)
    reference           \* set of results of an earlier run with one worker

vars == << entries, scen, stale, validator_present, validate, max_workers, limit,
           pc, xml_files, out_exists, out, temp_exists, tmp, futures, work_queue,
           results, summary, results_file, crash, reference >>

env == << entries, scen, stale, validator_present, validate, limit >>

ResultsFileName == "conversion_results.json"

\* A job before its worker took it: the locals of process_single_file, the
\* value or exception its future holds (ret), and counts of the processes
\* it launched.
queued_job(xml_name) ==
    [pc |-> "queued", result |-> new_result(xml_name), mjlog_path |-> None,
     proc |-> None, seen |-> None, success |-> None, exc |-> None, ret |-> None,
     nconv |-> 0, nval |-> 0]

RunningPcs == {"precheck", "gzip", "convert", "validate", "cleanup"}
Running == {f \in DOMAIN futures : futures[f].pc \in RunningPcs}
Finished == {f \in DOMAIN futures : futures[f].pc \in {"finished", "collected"}}

\* The destination file name of an input file.
DestName(xml_name) == output_path_of(mjlog_path_of(xml_name))

\* The output directory an earlier run over the same input left behind.
earlier_output(names) ==
    [p \in {output_path_of(mjlog_path_of(n)) : n \in names} |->
        Mjson(CHOOSE n \in names : output_path_of(mjlog_path_of(n)) = p, 1)]

Listing(k) == {NamePool[i] : i \in 1..Min(k, Len(NamePool))} \cup {OtherEntry}

\* The state batch_convert is called in, for a given environment.
Fresh ==
    /\ pc = "discover"
    /\ xml_files = << >>
    /\ out_exists = stale
    /\ out = IF stale THEN earlier_output(glob_xml(entries)) ELSE NoFiles
    /\ temp_exists = FALSE
    /\ tmp = NoFiles
    /\ futures = NoFiles
    /\ work_queue = << >>
    /\ results = << >>
    /\ summary = None
    /\ results_file = None
    /\ crash = None

Arguments ==
    /\ stale \in BOOLEAN
    /\ validate \in BOOLEAN
    /\ validator_present \in BOOLEAN
    /\ validate = FALSE => validator_present = FALSE
    /\ limit \in {None} \cup {Some(l) : l \in -1..MaxLimit}

\* The scenarios tried for a batch of k input files: every behaviour of the
\* externals for a batch of one file, the main ones for a larger batch.
ScenariosFor(k) == IF k = 1 THEN JobScenarios ELSE BatchScenarios

\* A batch over up to MaxFiles input files.
Init ==
    /\ \E k \in 0..MaxFiles :
          /\ entries = Listing(k)
          /\ scen \in [glob_xml(entries) -> ScenariosFor(k)]
    /\ Arguments
    /\ max_workers \in 0..MaxWorkers
    /\ reference = None
    /\ Fresh

\* The first of two runs over the same input: one worker, no limit.
InitPair ==
    /\ \E k \in 1..MaxFiles :
          /\ entries = Listing(k)
          /\ scen \in [glob_xml(entries) -> ScenariosFor(k)]
    /\ Arguments
    /\ limit = None
    /\ max_workers = 1
    /\ reference = None
    /\ Fresh

\* ------------------------------------------------------------ batch_convert
\* Faulty variant of returns_early: no early return.
returns_early_never(found) == FALSE

\* Lines 157-159: if not xml_files: return
returns_early(found) == found = {}

\* Lines 155-164.
Discover ==
    /\ pc = "discover"
    /\ LET found == glob_xml(entries)
       IN  IF returns_early(found)
           THEN pc' = "done" /\ xml_files' = << >>
           ELSE pc' = "setup" /\ xml_files' = apply_limit(sorted(found), limit)
    /\ UNCHANGED << env, max_workers, out_exists, out, temp_exists, tmp, futures,
                    work_queue, results, summary, results_file, crash, reference >>

\* Lines 167-183.
Setup ==
    /\ pc = "setup"
    /\ out_exists' = TRUE
    /\ temp_exists' = TRUE
    /\ tmp' = NoFiles
    /\ results' = << >>
    /\ pc' = "executor"
    /\ UNCHANGED << env, max_workers, xml_files, out, futures, work_queue, summary,
                    results_file, crash, reference >>

\* Line 185: ThreadPoolExecutor(max_workers) raises ValueError for a size
\* below one; the exception leaves the scratch-directory scope.
CreateExecutor ==
    /\ pc = "executor"
    /\ IF max_workers <= 0
       THEN /\ crash' = Some(MsgMaxWorkers)
            /\ temp_exists' = FALSE
            /\ pc' = "crashed"
       ELSE /\ pc' = IF xml_files = << >> THEN "collect" ELSE "submit"
            /\ UNCHANGED << crash, temp_exists >>
    /\ UNCHANGED << env, max_workers, xml_files, out_exists, out, tmp, futures,
                    work_queue, results, summary, results_file, reference >>

\* Lines 187-188: executor.submit for the next file of args_list.
Submit ==
    /\ pc = "submit"
    /\ LET i == Cardinality(DOMAIN futures) + 1
           f == xml_files[i]
       IN  /\ futures' = Put(futures, f, queued_job(f))
           /\ work_queue' = Append(work_queue, f)
           /\ pc' = IF i = Len(xml_files) THEN "collect" ELSE "submit"
    /\ UNCHANGED << env, max_workers, xml_files, out_exists, out, temp_exists, tmp,
                    results, summary, results_file, crash, reference >>

\* ------------------------------------------------------ process_single_file
Finish(job, ret) == [job EXCEPT !.pc = "finished", !.ret = Some(ret)]

\* A worker thread takes the oldest queued work item.
Start(f) ==
    /\ futures[f].pc = "queued"
    /\ work_queue # << >> /\ Head(work_queue) = f
    /\ worker_free(Cardinality(Running), max_workers)
    /\ futures' = [futures EXCEPT ![f].pc = "precheck"]
    /\ work_queue' = Tail(work_queue)
    /\ UNCHANGED << env, max_workers, pc, xml_files, out_exists, out, temp_exists,
                    tmp, results, summary, results_file, crash, reference >>

\* Lines 108-121.
PreCheck(f) ==
    /\ futures[f].pc = "precheck"
    /\ LET job == futures[f]
       IN  futures' = [futures EXCEPT ![f] =
               IF check_bye_event(scen[f])
               THEN Finish(job, [raised |-> FALSE, result |-> skip_result(job.result)])
               ELSE [job EXCEPT !.pc = "gzip"]]
    /\ UNCHANGED << env, max_workers, pc, xml_files, out_exists, out, temp_exists,
                    tmp, work_queue, results, summary, results_file, crash, reference >>

\* Line 125, and lines 144-148 when it raises.
Gzip(f) ==
    /\ futures[f].pc = "gzip"
    /\ LET job == futures[f]
           g == gzip_xml_to_mjlog(f, scen[f], tmp)
       IN  /\ tmp' = g.tmp
           /\ futures' = [futures EXCEPT ![f] =
                 IF g.exc # None
                 THEN Finish([job EXCEPT !.exc = g.exc],
                             on_exception(job.result, g.exc[1]))
                 ELSE [job EXCEPT !.pc = "convert", !.mjlog_path = g.ret]]
    /\ UNCHANGED << env, max_workers, pc, xml_files, out_exists, out, temp_exists,
                    work_queue, results, summary, results_file, crash, reference >>

\* Lines 128-139 (without the validator call): convert_mjlog_to_mjai and
\* the status it gives.
Convert(f) ==
    /\ futures[f].pc = "convert"
    /\ LET job == futures[f]
           output_path == output_path_of(job.mjlog_path[1])
           proc == run_converter(scen, tmp, out, job.mjlog_path[1])
           c == convert_classify(proc, output_path)
       IN  /\ out' = c.out
           /\ futures' = [futures EXCEPT ![f] =
                 [job EXCEPT
                    !.proc = Some([exc |-> proc.exc, returncode |-> proc.returncode,
                                   stderr |-> proc.stderr]),
                    !.seen = Some(IF Exists(proc.out, output_path)
                                  THEN proc.out[output_path].size ELSE -1),
                    !.success = Some(c.success),
                    !.nconv = @ + 1,
                    !.result = conversion_result(job.result, c.success, c.message),
                    !.pc = IF c.success /\ validate /\ Exists(c.out, output_path)
                           THEN "validate" ELSE "cleanup"]]
    /\ UNCHANGED << env, max_workers, pc, xml_files, out_exists, temp_exists, tmp,
                    work_queue, results, summary, results_file, crash, reference >>

\* Lines 135-136: validate_mjai on the converted file.
Validate(f) ==
    /\ futures[f].pc = "validate"
    /\ LET job == futures[f]
           mjson_path == output_path_of(job.mjlog_path[1])
           v == IF Exists(out, mjson_path) /\ out[mjson_path].of \in DOMAIN scen
                THEN scen[out[mjson_path].of].val ELSE ValFailOther
           r == validate_mjai(validator_present, v)
       IN  futures' = [futures EXCEPT ![f] =
               [job EXCEPT
                  !.result = validation_result(job.result, r.valid, r.message),
                  !.nval = IF validator_launched(validator_present) THEN @ + 1 ELSE @,
                  !.pc = "cleanup"]]
    /\ UNCHANGED << env, max_workers, pc, xml_files, out_exists, out, temp_exists,
                    tmp, work_queue, results, summary, results_file, crash, reference >>

\* Lines 142 and 148: the scratch artifact is deleted and the job returns.
Cleanup(f) ==
    /\ futures[f].pc = "cleanup"
    /\ LET job == futures[f]
       IN  /\ tmp' = cleanup(tmp, job.mjlog_path[1])
           /\ futures' = [futures EXCEPT ![f] =
                 Finish(job, [raised |-> FALSE, result |-> job.result])]
    /\ UNCHANGED << env, max_workers, pc, xml_files, out_exists, out, temp_exists,
                    work_queue, results, summary, results_file, crash, reference >>

\* ------------------------------------------------- batch_convert, continued
\* Lines 191-194: as_completed yields a finished future not yet yielded;
\* future.result() returns the job's result or raises the job's exception.
Collect(f) ==
    /\ pc = "collect"
    /\ futures[f].pc = "finished"
    /\ LET ret == futures[f].ret[1]
       IN  IF ret.raised
           THEN /\ crash' = futures[f].exc
                /\ pc' = "crashed"
                /\ UNCHANGED << results, futures >>
           ELSE /\ results' = collect(results, ret.result)
                /\ futures' = [futures EXCEPT ![f].pc = "collected"]
                /\ UNCHANGED << crash, pc >>
    /\ UNCHANGED << env, max_workers, xml_files, out_exists, out, temp_exists, tmp,
                    work_queue, summary, results_file, reference >>

\* Faulty variant of all_yielded: the with blocks are left while jobs run.
all_yielded_at_once(futs) == TRUE

\* Lines 191 and 185: the loop over as_completed ends when every future was
\* yielded, and the executor's with block waits for every job.
all_yielded(futs) == \A f \in DOMAIN futs : futs[f].pc = "collected"

\* Lines 231-233: as_completed is exhausted, the executor shuts down and the
\* scratch directory is removed with whatever it still holds.
LeaveScopes ==
    /\ pc = "collect"
    /\ all_yielded(futures)
    /\ temp_exists' = FALSE
    /\ tmp' = NoFiles
    /\ pc' = "summary"
    /\ UNCHANGED << env, max_workers, xml_files, out_exists, out, futures, work_queue,
                    results, summary, results_file, crash, reference >>

CountOf(rs, statuses) == Cardinality({i \in 1..Len(rs) : rs[i].status \in statuses})

RECURSIVE Select(_, _)
\* [r for r in rs if r['status'] in statuses]
Select(rs, statuses) ==
    IF rs = << >> THEN << >>
    ELSE (IF Head(rs).status \in statuses THEN << Head(rs) >> ELSE << >>)
         \o Select(Tail(rs), statuses)

\* Faulty variant of summarize: more than ten errors are cut to the first
\* ten, not suppressed.
summarize_first_ten(rs, with_validation) ==
    LET validated == {i \in 1..Len(rs) : rs[i].validation # None}
        errors == Select(rs, {"failed", "error"})
    IN  [successful |-> CountOf(rs, {"converted"}),
         failed |-> CountOf(rs, {"failed", "error"}),
         skipped |-> CountOf(rs, {"skipped"}),
         validation |->
             IF with_validation
             THEN Some([passed |-> Cardinality({i \in validated :
                                      rs[i].validation = Some("passed")}),
                        validated |-> Cardinality(validated)])
             ELSE None,
         errors |->
             IF errors # << >>
             THEN Some([i \in 1..Len(PySliceTo(errors, 10)) |->
                          [file |-> errors[i].file,
                           error |-> PySliceTo(errors[i].error[1], 100)]])
             ELSE None]

\* Lines 236-269: the counts the summary prints, the validation line when
\* validation was requested, and the error list (None when not printed).
summarize(rs, with_validation) ==
    LET validated == {i \in 1..Len(rs) : rs[i].validation # None}
        errors == Select(rs, {"failed", "error"})
    IN  [successful |-> CountOf(rs, {"converted"}),
         failed |-> CountOf(rs, {"failed", "error"}),
         skipped |-> CountOf(rs, {"skipped"}),
         validation |->
             IF with_validation
             THEN Some([passed |-> Cardinality({i \in validated :
                                      rs[i].validation = Some("passed")}),
                        validated |-> Cardinality(validated)])
             ELSE None,
         errors |->
             IF errors # << >> /\ Len(errors) <= 10
             THEN Some([i \in 1..Len(PySliceTo(errors, 10)) |->
                          [file |-> errors[i].file,
                           error |-> PySliceTo(errors[i].error[1], 100)]])
             ELSE None]

\* Lines 235-269; the percentages of lines 255-257 divide by
\* len(xml_files), and an empty list raises ZeroDivisionError.
Summary ==
    /\ pc = "summary"
    /\ IF Len(xml_files) = 0
       THEN /\ crash' = Some(MsgDivision)
            /\ pc' = "crashed"
            /\ UNCHANGED summary
       ELSE /\ summary' = Some(summarize(results, validate))
            /\ pc' = "save"
            /\ UNCHANGED crash
    /\ UNCHANGED << env, max_workers, xml_files, out_exists, out, temp_exists, tmp,
                    futures, work_queue, results, results_file, reference >>

\* Lines 272-275.
Save ==
    /\ pc = "save"
    /\ results_file' = Some(results)
    /\ out' = Put(out, ResultsFileName, Mjson("", 1))
    /\ pc' = "done"
    /\ UNCHANGED << env, max_workers, xml_files, out_exists, temp_exists, tmp,
                    futures, work_queue, results, summary, crash, reference >>

Next ==
    \/ Discover
    \/ Setup
    \/ CreateExecutor
    \/ Submit
    \/ \E f \in DOMAIN futures : Start(f)
    \/ \E f \in DOMAIN futures : PreCheck(f)
    \/ \E f \in DOMAIN futures : Gzip(f)
    \/ \E f \in DOMAIN futures : Convert(f)
    \/ \E f \in DOMAIN futures : Validate(f)
    \/ \E f \in DOMAIN futures : Cleanup(f)
    \/ \E f \in DOMAIN futures : Collect(f)
    \/ LeaveScopes
    \/ Summary
    \/ Save

Spec == Init /\ [][Next]_vars

\* The run with one worker is over: its results are kept as the reference
\* and batch_convert is called again on the same input and output
\* directories as before, with a larger pool.
Rerun ==
    /\ pc = "done"
    /\ reference = None
    /\ results_file # None
    /\ reference' = Some(Range(results))
    /\ max_workers' \in 2..(MaxWorkers + 2)
    /\ pc' = "discover"
    /\ xml_files' = << >>
    /\ out_exists' = stale
    /\ out' = IF stale THEN earlier_output(glob_xml(entries)) ELSE NoFiles
    /\ temp_exists' = FALSE
    /\ tmp' = NoFiles
    /\ futures' = NoFiles
    /\ work_queue' = << >>
    /\ results' = << >>
    /\ summary' = None
    /\ results_file' = None
    /\ crash' = None
    /\ UNCHANGED env

NextPair == Next \/ Rerun

\* The reporter on its own (lines 235-275), entered with a drained
\* collection of up to MaxResults results: nf failed, ne error, nc converted
\* and ns skipped files, in this order.
report_name(i) == "f" \o SubSeq(Alphabet, i + 1, i + 1) \o ".xml"

report_status(i, nf, ne, nc) ==
    IF i <= nf THEN "failed"
    ELSE IF i <= nf + ne THEN "error"
    ELSE IF i <= nf + ne + nc THEN "converted" ELSE "skipped"

report_result(i, nf, ne, nc, with_validation) ==
    LET status == report_status(i, nf, ne, nc)
    IN  [file |-> report_name(i),
         status |-> status,
         error |-> CASE status = "failed" ->
                          Some(IF i = 1 THEN ConvLong.stderr ELSE ConvPartial.stderr)
                     [] status = "error" -> Some(ErrNoSpace)
                     [] status = "skipped" -> Some(MsgBye)
                     [] OTHER -> None,
         validation |-> IF status = "converted" /\ with_validation
                        THEN Some("passed") ELSE None]

report_scenario(status) ==
    CASE status = "failed" -> Scenario("plain", "ok", ConvPartial, ValPass)
      [] status = "error" -> Scenario("plain", "write_fail", ConvOk, ValPass)
      [] status = "skipped" -> Scenario("bye", "ok", ConvOk, ValPass)
      [] OTHER -> Scenario("plain", "ok", ConvOk, ValPass)

InitReport ==
    \E n \in 1..MaxResults : \E nf \in 0..n : \E ne \in 0..(n - nf) :
    \E nc \in 0..(n - nf - ne) :
        /\ validate \in BOOLEAN
        /\ validator_present = validate
        /\ stale = FALSE
        /\ limit = None
        /\ max_workers = 4
        /\ reference = None
        /\ entries = {report_name(i) : i \in 1..n} \cup {OtherEntry}
        /\ scen = [f \in {report_name(i) : i \in 1..n} |->
                     report_scenario(report_status(
                         CHOOSE i \in 1..n : report_name(i) = f, nf, ne, nc))]
        /\ xml_files = [i \in 1..n |-> report_name(i)]
        /\ results = [i \in 1..n |-> report_result(i, nf, ne, nc, validate)]
        /\ futures = [f \in {report_name(i) : i \in 1..n} |->
                        LET r == report_result(CHOOSE i \in 1..n : report_name(i) = f,
                                               nf, ne, nc, validate)
                        IN  [queued_job(f) EXCEPT
                               !.pc = "collected", !.result = r,
                               !.ret = Some([raised |-> FALSE, result |-> r])]]
        /\ out_exists = TRUE
        /\ out = [p \in {DestName(report_name(i)) :
                            i \in (nf + ne + 1)..(nf + ne + nc)} |->
                    Mjson(CHOOSE f \in {report_name(i) : i \in 1..n} :
                              DestName(f) = p, 1)]
        /\ temp_exists = FALSE
        /\ tmp = NoFiles
        /\ work_queue = << >>
        /\ summary = None
        /\ results_file = None
        /\ crash = None
        /\ pc = "summary"

\* A batch over two input files whose names begin with a dot: glob("*.xml")
\* finds both, and Path.stem takes no suffix off a name that is only a dot
\* and an extension.
HiddenNames == {".xml", ".xml.xml"}

InitHidden ==
    /\ entries = HiddenNames \cup {OtherEntry}
    /\ scen \in [glob_xml(entries) -> BatchScenarios]
    /\ Arguments
    /\ max_workers \in 0..MaxWorkers
    /\ reference = None
    /\ Fresh

HiddenSpec == InitHidden /\ [][Next]_vars

NextReport == Summary \/ Save

ReportSpec == InitReport /\ [][NextReport]_vars

PairSpec == InitPair /\ [][NextPair]_vars

\* ------------------------------------------------------------------ claims
Drained == pc \in {"summary", "save", "done"}
DestOf(xml_name) == output_path_of(mjlog_path_of(xml_name))
ResultOf(f) == futures[f].ret[1].result

\* C1: once the worker pool has drained, the result collection holds
\* exactly one result for each input file selected for processing: as many
\* results as selected files, and for each selected file exactly one index
\* of the collection carries its name.
C1_OneResultPerFile ==
    Drained =>
        /\ Len(results) = Len(xml_files)
        /\ \A i \in 1..Len(xml_files) :
              Cardinality({j \in 1..Len(results) : results[j].file = xml_files[i]}) = 1

\* C1 witness: a drained pool over two files with different outcomes whose
\* results arrived against the submission order.
C1_Witness ==
    /\ pc = "summary"
    /\ Len(results) = 2
    /\ results[1].file = xml_files[2]
    /\ results[1].status # results[2].status

\* C2 (as claimed): whenever process_single_file has returned for a file,
\* the scratch artifact of that file is not in the scratch directory.
C2_ScratchGoneOnReturn ==
    \A f \in Finished : ~Exists(tmp, mjlog_path_of(f))

\* C3: process_single_file never raises: every finished job's future holds
\* a result, an exception that reached the except clause gives status error
\* with the exception's message, and batch_convert is never ended by a
\* job's exception (only by an exception of batch_convert's own lines).
C3_JobNeverRaises ==
    /\ crash \in {None, Some(MsgMaxWorkers), Some(MsgDivision)}
    /\ \A f \in Finished :
          /\ futures[f].ret[1].raised = FALSE
          /\ futures[f].exc # None =>
                /\ ResultOf(f).status = "error"
                /\ ResultOf(f).error = futures[f].exc

\* C3 witness: a job ended by an exception was collected, and another
\* job's result was collected after it.
C3_Witness ==
    /\ pc = "summary"
    /\ \E i, j \in 1..Len(results) :
          /\ i < j
          /\ results[i].status = "error"
          /\ futures[results[i].file].exc = Some(ErrNoSpace)
          /\ results[j].status = "converted"

\* The converter ran for job f and exited with code zero (no launch error).
ExitedZero(f) ==
    /\ futures[f].proc # None
    /\ futures[f].proc[1].exc = None
    /\ futures[f].proc[1].returncode = 0

\* The converter ran for job f and exited with a nonzero code.
ExitedNonzero(f) ==
    /\ futures[f].proc # None
    /\ futures[f].proc[1].exc = None
    /\ futures[f].proc[1].returncode # 0

\* C4: when the converter exited zero and the destination file was missing
\* or empty, the job is failed with the message "Conversion produced empty
\* or no file" and the destination file does not exist; the invoker reports
\* success only after a zero exit with a destination file of non-zero size.
C4_EmptyOutputFails ==
    \A f \in DOMAIN futures :
        /\ (ExitedZero(f) /\ futures[f].seen[1] <= 0) =>
              /\ futures[f].success = Some(FALSE)
              /\ futures[f].result.status = "failed"
              /\ futures[f].result.error = Some(MsgEmpty)
              /\ Contains(futures[f].result.error[1], "empty")
              /\ ~Exists(out, DestOf(f))
        /\ futures[f].success = Some(TRUE) =>
              /\ ExitedZero(f)
              /\ futures[f].seen[1] > 0

\* C4 witness: a job returned after the converter exited zero leaving an
\* empty destination file.
C4_Witness ==
    \E f \in Finished : ExitedZero(f) /\ futures[f].seen = Some(0)

\* C5: after a nonzero exit the job is failed; its message is "Unsupported
\* format" when stderr contains the marker, and otherwise the first 200
\* characters of stderr (all of it when it is no longer than that).
C5_NonzeroExitMessage ==
    \A f \in DOMAIN futures :
        ExitedNonzero(f) =>
            LET stderr == futures[f].proc[1].stderr
                error == futures[f].result.error
            IN  /\ futures[f].result.status = "failed"
                /\ error # None
                /\ Contains(stderr, UnsupportedMarker) => error[1] = MsgUnsupported
                /\ ~Contains(stderr, UnsupportedMarker) =>
                      /\ IsPrefix(error[1], stderr)
                      /\ Len(error[1]) = Min(Len(stderr), StderrLimit)

\* C5 witness: a returned job whose converter wrote more than 200
\* characters of stderr without the marker.
C5_Witness ==
    \E f \in Finished :
        /\ ExitedNonzero(f)
        /\ Len(futures[f].proc[1].stderr) > StderrLimit
        /\ ~Contains(futures[f].proc[1].stderr, UnsupportedMarker)

\* C6 (as claimed): whenever a job has completed with status failed or
\* error, no destination file of its input file exists in the output
\* directory.
C6_NoArtifactAfterFailedOrError ==
    \A f \in Finished :
        ResultOf(f).status \in {"failed", "error"} => ~Exists(out, DestOf(f))

\* C6 (amended): whenever a job has completed with status failed, no
\* destination file of its input file exists, whichever failure path the
\* invoker took; and a launch exception of the converter is returned as a
\* failure carrying the exception's text, not raised.
C6_NoArtifactAfterFailed ==
    \A f \in Finished :
        /\ ResultOf(f).status = "failed" => ~Exists(out, DestOf(f))
        /\ (futures[f].proc # None /\ futures[f].proc[1].exc # None) =>
              /\ futures[f].ret[1].raised = FALSE
              /\ futures[f].exc = None
              /\ ResultOf(f).status = "failed"
              /\ ResultOf(f).error = futures[f].proc[1].exc

\* C6 witness: a job failed after a nonzero exit that had left a
\* destination file behind.
C6_Witness ==
    \E f \in Finished :
        /\ ExitedNonzero(f)
        /\ futures[f].seen[1] > 0
        /\ ~stale
        /\ ResultOf(f).status = "failed"

\* C7: a job whose conversion succeeded has status converted and no error
\* from then on, whatever the validator does; the validator only sets the
\* validation field, to "passed" or to "failed: " and a reason.
C7_ValidationIsAdvisory ==
    \A f \in DOMAIN futures :
        futures[f].success = Some(TRUE) =>
            /\ futures[f].result.status = "converted"
            /\ futures[f].result.error = None
            /\ \/ futures[f].result.validation = None
               \/ futures[f].result.validation = Some("passed")
               \/ IsPrefix("failed: ", futures[f].result.validation[1])
            /\ f \in Finished => ResultOf(f) = futures[f].result

\* C7 witness: a converted job returned with a failed validation.
C7_Witness ==
    \E f \in Finished :
        /\ futures[f].success = Some(TRUE)
        /\ futures[f].nval = 1
        /\ ResultOf(f).validation = Some("failed: " \o MsgValidationTimeout)

\* C8: when validation is requested and the validator executable is
\* absent, no job launches the validator, every returned job with status
\* converted has validation "passed", and the summary counts every
\* converted file as validated and as passed.
C8_AbsentValidatorPasses ==
    (validate /\ ~validator_present) =>
        /\ \A f \in DOMAIN futures : futures[f].nval = 0
        /\ \A f \in Finished :
              ResultOf(f).status = "converted" => ResultOf(f).validation = Some("passed")
        /\ summary # None =>
              /\ summary[1].validation # None
              /\ summary[1].validation[1].passed = summary[1].successful
              /\ summary[1].validation[1].validated = summary[1].successful

\* C8 witness: the summary of a batch with an absent validator in which a
\* file was converted whose content the validator would reject.
C8_Witness ==
    /\ validate /\ ~validator_present
    /\ summary # None
    /\ \E i \in 1..Len(results) :
          /\ results[i].status = "converted"
          /\ scen[results[i].file].val = ValFail

C10_AtMostNRunning ==
    /\ Cardinality(Running) <= max_workers
    /\ pc \in {"discover", "setup", "executor", "submit"} => results = << >>

\* C10 witness: every job is submitted, every worker is busy and a job
\* still waits in the queue.
C10_Witness ==
    /\ pc = "collect"
    /\ Cardinality(Running) = max_workers
    /\ work_queue # << >>
    /\ results = << >>

\* C11 (as claimed): a batch over an existing input directory with at
\* least one input file is never aborted, whatever the pool size, the limit
\* and the validation flag: batch_convert is ended by no exception.
C11_BatchNeverAborts ==
    glob_xml(entries) # {} => (crash = None /\ pc # "crashed")

\* The number of files a limit of L >= 0 selects out of n, as claimed.
ClaimedCount(n) ==
    IF limit = None THEN n ELSE Min(limit[1], n)

\* C12 (as claimed): with a limit L >= 0 exactly the first min(L, n) of the
\* n sorted input files are processed, and all of them without a limit.
C12_LimitSelectsFirstL ==
    (pc # "discover" /\ glob_xml(entries) # {} /\ (limit = None \/ limit[1] >= 0)) =>
        LET all == sorted(glob_xml(entries))
        IN  /\ Len(xml_files) = ClaimedCount(Len(all))
            /\ xml_files = SubSeq(all, 1, Len(xml_files))

\* C13: with no input file in the input directory batch_convert returns at
\* once: the output directory and its files are as before the call, no
\* scratch directory exists, no job is submitted, no process is launched and
\* no result file is written.
C13_NoFilesNoEffect ==
    (\A n \in entries : ~EndsWith(n, ".xml")) =>
        /\ pc \in {"discover", "done"}
        /\ out_exists = stale
        /\ out = NoFiles
        /\ ~temp_exists
        /\ tmp = NoFiles
        /\ futures = NoFiles
        /\ work_queue = << >>
        /\ results = << >>
        /\ summary = None
        /\ results_file = None
        /\ crash = None

\* C13 witness: batch_convert returned on a directory that holds only
\* another kind of file, the output directory not existing.
C13_Witness ==
    /\ pc = "done"
    /\ entries = {OtherEntry}
    /\ ~out_exists
    /\ results_file = None

\* The number of results with status failed or error.
Failures == Cardinality({i \in 1..Len(results) : results[i].status \in {"failed", "error"}})

\* C14: the failed count of the summary is the number of results with
\* status failed or error; the error list is printed exactly when that
\* number is between 1 and 10, one line per failure; and the result file
\* holds every result.
C14_FailedCountAndList ==
    /\ summary # None =>
          /\ summary[1].failed = Failures
          /\ summary[1].errors # None <=> (1 <= Failures /\ Failures <= 10)
          /\ summary[1].errors # None => Len(summary[1].errors[1]) = Failures
    /\ results_file # None =>
          /\ results_file[1] = results
          /\ Len(results_file[1]) = Len(xml_files)

\* C14 witness: a batch with eleven failures: the summary counts eleven,
\* prints no error list, and the result file holds eleven results.
C14_Witness ==
    /\ pc = "done"
    /\ summary[1].failed = 11
    /\ summary[1].errors = None
    /\ Len(results_file[1]) = 11

\* C15: within a job each external tool runs at most once; the converter
\* runs only with the scratch artifact created and in place; the validator
\* is called only after a successful conversion and when validation was
\* requested; and a job whose input contains BYE only passes the pre-check:
\* no scratch artifact, no converter, no validator, status skipped.
C15_StepOrder ==
    \A f \in DOMAIN futures :
        LET job == futures[f]
        IN  /\ job.nconv <= 1 /\ job.nval <= 1
            /\ job.pc = "convert" =>
                  /\ job.nconv = 0
                  /\ job.mjlog_path = Some(mjlog_path_of(f))
                  /\ Exists(tmp, job.mjlog_path[1])
            /\ job.nconv = 1 => job.mjlog_path # None
            /\ job.pc = "validate" =>
                  /\ job.nval = 0 /\ job.nconv = 1
                  /\ job.success = Some(TRUE) /\ validate
            /\ job.nval = 1 => (job.nconv = 1 /\ job.success = Some(TRUE) /\ validate)
            /\ scen[f].xml = "bye" =>
                  /\ job.pc \in {"queued", "precheck", "finished", "collected"}
                  /\ job.nconv = 0 /\ job.nval = 0
                  /\ job.mjlog_path = None
                  /\ ~Exists(tmp, mjlog_path_of(f))
                  /\ f \in Finished => ResultOf(f).status = "skipped"

\* C15 witness: one job was skipped by the pre-check and another ran the
\* converter and then the validator, once each.
C15_Witness ==
    \E f, g \in Finished :
        /\ scen[f].xml = "bye" /\ ResultOf(f).status = "skipped"
        /\ futures[g].nconv = 1 /\ futures[g].nval = 1

\* C16: the result collection changes only in a step of the orchestrator's
\* loop over as_completed, by the append of the result of the one job that
\* step collects; the saved result list is the collection in that order.
C16_OrchestratorAppends ==
    /\ [][results' # results =>
            /\ pc = "collect"
            /\ \E f \in DOMAIN futures :
                  /\ futures[f].pc = "finished"
                  /\ futures'[f].pc = "collected"
                  /\ \A g \in DOMAIN futures \ {f} : futures'[g] = futures[g]
                  /\ results' = Append(results, futures[f].ret[1].result)]_vars
    /\ [](results_file # None => results_file[1] = results)

\* C16 witness: with two workers the saved list has the second submitted
\* file first.
C16_Witness ==
    /\ pc = "done"
    /\ max_workers = 2
    /\ results_file # None
    /\ Len(results_file[1]) = 2
    /\ results_file[1][1].file = xml_files[2]
    /\ results_file[1][2].file = xml_files[1]

\* C17 (as claimed): any two distinct files of the batch have distinct
\* scratch paths and distinct destination paths, and no destination path is
\* the result file's path.
C17_DistinctPaths ==
    /\ \A i, j \in 1..Len(xml_files) :
          i # j =>
              /\ mjlog_path_of(xml_files[i]) # mjlog_path_of(xml_files[j])
              /\ DestName(xml_files[i]) # DestName(xml_files[j])
    /\ \A i \in 1..Len(xml_files) : DestName(xml_files[i]) # ResultsFileName

FinalStatuses == {"converted", "failed", "error", "skipped"}

\* C18: every returned result has one of the four final statuses, so the
\* three running counts add up to the number of collected results and the
\* three counts of the summary to the number of processed files.
C18_StatusesAndTotals ==
    /\ \A f \in Finished : ResultOf(f).status \in FinalStatuses
    /\ \A i \in 1..Len(results) : results[i].status \in FinalStatuses
    /\ CountOf(results, {"converted"}) + CountOf(results, {"failed", "error"})
          + CountOf(results, {"skipped"}) = Len(results)
    /\ summary # None =>
          summary[1].successful + summary[1].failed + summary[1].skipped
              = Len(xml_files)

\* C18 witness: the summary of a batch of a skipped file and a file whose
\* job ended with an exception.
C18_Witness ==
    /\ summary # None
    /\ summary[1].skipped = 1
    /\ summary[1].failed = 1
    /\ \E i \in 1..Len(results) : results[i].status = "error"

\* C19: in every returned result the error is None exactly when the status
\* is converted, and the validation is not None only when the status is
\* converted and validation was requested.
C19_FieldsFollowStatus ==
    \A f \in Finished :
        /\ ResultOf(f).error = None <=> ResultOf(f).status = "converted"
        /\ ResultOf(f).validation # None =>
              (ResultOf(f).status = "converted" /\ validate)

\* C19 witness: a failed result whose message is the empty stderr of the
\* converter.
C19_Witness ==
    \E f \in Finished :
        /\ ResultOf(f).status = "failed"
        /\ ResultOf(f).error = Some("")

\* C20: a job that has not returned has its scratch directory; the scratch
\* directory exists from before the first submit until every job was
\* collected, and holds nothing once it is removed; the result file is
\* written only after every job was collected.
C20_ScratchScope ==
    /\ \A f \in DOMAIN futures :
          futures[f].pc \notin {"finished", "collected"} => temp_exists
    /\ pc = "submit" => temp_exists
    /\ pc \in {"discover", "setup"} => futures = NoFiles
    /\ ~temp_exists => tmp = NoFiles
    /\ Drained =>
          /\ ~temp_exists
          /\ \A f \in DOMAIN futures : futures[f].pc = "collected"
          /\ DOMAIN futures = Range(xml_files)
    /\ results_file # None =>
          /\ \A f \in DOMAIN futures : futures[f].pc = "collected"
          /\ Len(results_file[1]) = Len(xml_files)

\* C20 witness: the batch ended after a job had left its scratch artifact
\* behind; the scratch directory is gone with it and the result file is
\* written.
C20_Witness ==
    /\ pc = "done"
    /\ results_file # None
    /\ \E f \in DOMAIN futures : futures[f].exc = Some(ErrNoSpace)
    /\ tmp = NoFiles
====
